---- MODULE Spec2Model ----
(***************************************************************************)
(* Model of the Cloudflare worker in src/workers.js: the fetch router and  *)
(* the /api/import orchestration (token exchange, job creation, upload,    *)
(* bounded polling with exponential backoff).                             *)
(*                                                                         *)
(* One action is one resumption of the async code: it consumes the result  *)
(* of the await the request is suspended on and runs the continuation up   *)
(* to the next await (issuing the next remote call or arming the timer),   *)
(* or up to the response.  A throw and the catch in fetch are in the same  *)
(* continuation, hence in the same action.                                 *)
(***************************************************************************)
EXTENDS Integers, Sequences, FiniteSets, TLC

VARIABLES
    env,        \* TRUE iff the three MARKETO_* variables are set
    pc,         \* the await the request is suspended on
    request,    \* the inbound request
    handler,    \* the handler the route switch called, "none" when none
    token,      \* const token of handleBulkImport
    batchId,    \* const batchId of createImportJobAndUploadData
    attempt,    \* let attempt of pollJobStatus
    timer,      \* delay (ms) of the pending setTimeout, 0 when none
    log,        \* remote calls issued and waits completed, in order
    observed,   \* statuses read at line 461 so far
    pollStatus, \* const status of pollJobStatus (line 461), as last read
    snapshot,   \* the result.result[0] on which the poll loop ended
    lastResp,   \* the last remote response received, as the code tests it
    uploadStatus, \* const status of handleBulkImport (line 156)
    finalStatus,\* const finalStatus of handleBulkImport (pollJobStatus's result)
    thrown,     \* the Error caught by fetch, NoError when none
    response,   \* the Response returned by fetch, NoResponse when none
    peer        \* the locals of a second, concurrent request

vars == <<env, pc, request, handler, token, batchId, attempt, timer, log,
          observed, pollStatus, snapshot, lastResp, uploadStatus, finalStatus, thrown,
          response, peer>>

----------------------------------------------------------------------------
(* Bounds of the model *)

MaxToken == 2
MaxBatch == 2
MaxRows == 1
MaxConcAttempt == 2

(* Program constants *)

MaxAttempts == 10
BaseDelay == 1000
DelayCap == 30000

----------------------------------------------------------------------------
(* Values *)

Undefined == -1
NoToken == 0
NoBatch == 0
\* the inputs and answers below are finite sets; S with its elements listed
Enumerate(S) == {x : x \in S}

Tokens == 1..MaxToken
BatchIds == 1..MaxBatch
RowCounts == {Undefined} \cup (0..MaxRows)

Methods == {"OPTIONS", "GET", "POST"}
Paths ==
    {"/api/import", "/api/single-lead", "/api/fields", "/api/programs",
     "/api/parse-leads", "/api/describe-title", "/nowhere"}

\* JS strings a body field can hold: absent, the empty string, a value
FieldValues == {"undefined", "", "value"}

Bodies ==
    [kind : {"undecodable", "null", "object"},
     csvContent : FieldValues, lookupField : FieldValues]

\* input is what the other handlers require: the leads array, text and
\* jsonSchema, the title (fields of the body), the search query parameter.
\* A GET request carries no body, so request.json() cannot decode it
Requests ==
    Enumerate({r \in [method : Methods, path : Paths, body : Bodies, input : FieldValues] :
                  /\ r.body.kind # "object" =>
                        r.body.csvContent = "undefined" /\ r.body.lookupField = "undefined"
                  /\ r.method = "GET" => r.body.kind = "undecodable"
                  /\ r.path \in {"/api/import", "/api/fields", "/nowhere"} =>
                        r.input = "undefined"
                  /\ r.path # "/api/import" =>
                        r.body.csvContent = "undefined" /\ r.body.lookupField = "undefined"
                  /\ (r.path # "/api/programs" /\ r.body.kind # "object") =>
                        r.input = "undefined"})

NoRequest ==
    [method |-> "none", path |-> "none",
     body |-> [kind |-> "undecodable", csvContent |-> "undefined",
               lookupField |-> "undefined"],
     input |-> "undefined"]

Statuses == {"Queued", "Processing", "Completed", "Failed", "Cancelled", "Unknown"}

\* What the code tests of a remote response: whether fetch resolved,
\* whether response.json() decoded, response.ok, and the flag of the body
\* (access_token for the token exchange, success for the others)
NoResp == [net |-> "none", json |-> FALSE, ok |-> FALSE, success |-> FALSE]

Summary(r, flag) == [net |-> r.net, json |-> r.json, ok |-> r.ok, success |-> flag]

NoSnapshot ==
    [status |-> "none", numOfRowsProcessed |-> Undefined,
     numOfRowsFailed |-> Undefined]

\* An Error: the throw site (its message template) and what the template
\* interpolates: a batch id, an attempt count, the remote errors payload
NoError == [kind |-> "none", batch |-> NoBatch, attempts |-> Undefined,
            payload |-> FALSE]

Err(kind, batch, attempts, payload) ==
    [kind |-> kind, batch |-> batch, attempts |-> attempts, payload |-> payload]

NoBody == [status |-> "none", jobId |-> NoBatch, successRows |-> Undefined,
           errorRows |-> Undefined, message |-> NoError]

NoResponse == [http |-> 0, cors |-> FALSE, body |-> NoBody]

\* JS truthiness of a string field
Falsy(s) == s \in {"undefined", ""}

\* x || 0
OrZero(x) == IF x = Undefined \/ x = 0 THEN 0 ELSE x

----------------------------------------------------------------------------
(* Envelope builder *)

handleCors(resp) == [resp EXCEPT !.cors = TRUE]

jsonResponseNoCors(data, status) == [http |-> status, cors |-> FALSE, body |-> data]

jsonResponse(data, status) ==
    handleCors([http |-> status, cors |-> FALSE, body |-> data])

errorResponse(message, status) ==
    jsonResponse([NoBody EXCEPT !.status = "error", !.message = message], status)

\* pollDelay: min(2^attempt * 1000, 30000) milliseconds
Min(a, b) == IF a < b THEN a ELSE b

pollDelayNoCap(n) == (2 ^ n) * BaseDelay

pollDelayFlat(n) == Min(BaseDelay, DelayCap)

pollDelayZeroFirst(n) == Min((2 ^ n) * BaseDelay - BaseDelay, DelayCap)

pollDelay(n) == Min((2 ^ n) * BaseDelay, DelayCap)

----------------------------------------------------------------------------
(* Log of remote calls and completed waits *)

Call(op, tok, batch) == [op |-> op, token |-> tok, batch |-> batch, ms |-> 0]

Wait(ms) == [op |-> "wait", token |-> NoToken, batch |-> NoBatch, ms |-> ms]

Count(op) == Cardinality({i \in 1..Len(log) : log[i].op = op})

RemoteCalls == Cardinality({i \in 1..Len(log) : log[i].op # "wait"})

Waits == SelectSeq(log, LAMBDA e : e.op = "wait")

----------------------------------------------------------------------------
(* Remote responses *)

TokenResponses ==
    Enumerate({r \in [net : {"reject", "ok"}, json : BOOLEAN, ok : BOOLEAN,
                      access_token : Tokens \cup {NoToken}] :
                  /\ r.net = "reject" => ~r.json /\ ~r.ok
                  /\ ~r.json => r.access_token = NoToken})

TokenFailedNoTokenCheck(r) == r.net = "reject" \/ ~r.json \/ ~r.ok

\* getAccessToken throws: fetch rejects, response.json() fails, or line 133
TokenFailed(r) ==
    r.net = "reject" \/ ~r.json \/ ~r.ok \/ r.access_token = NoToken

TokenError(r) ==
    IF r.net = "reject" THEN Err("Network", NoBatch, Undefined, FALSE)
    ELSE IF ~r.json THEN Err("Decode", NoBatch, Undefined, FALSE)
    ELSE Err("TokenFailed", NoBatch, Undefined, TRUE)

\* Job creation: result is undefined, [], [{}] or [{batchId}]
CreateResponses ==
    Enumerate({r \in [net : {"reject", "ok"}, json : BOOLEAN, ok : BOOLEAN,
                      success : BOOLEAN, result : {"undefined", "empty", "nobatch", "batch"},
                      batchId : BatchIds \cup {NoBatch}] :
                  /\ (r.result = "batch") <=> (r.batchId # NoBatch)
                  /\ r.net = "reject" => ~r.json /\ ~r.ok
                  /\ ~r.json => ~r.success /\ r.result = "undefined"})

CreateErrorNoBatchCheck(r) ==
    IF r.net = "reject" THEN Err("Network", NoBatch, Undefined, FALSE)
    ELSE IF ~r.json THEN Err("Decode", NoBatch, Undefined, FALSE)
    ELSE IF ~r.ok \/ ~r.success THEN Err("CreateFailed", NoBatch, Undefined, TRUE)
    ELSE IF r.result \in {"undefined", "empty"}
         THEN Err("TypeError", NoBatch, Undefined, FALSE)
    ELSE NoError

\* line 402, evaluated left to right: undefined[0] and [][0].batchId throw
CreateError(r) ==
    IF r.net = "reject" THEN Err("Network", NoBatch, Undefined, FALSE)
    ELSE IF ~r.json THEN Err("Decode", NoBatch, Undefined, FALSE)
    ELSE IF ~r.ok \/ ~r.success THEN Err("CreateFailed", NoBatch, Undefined, TRUE)
    ELSE IF r.result \in {"undefined", "empty"}
         THEN Err("TypeError", NoBatch, Undefined, FALSE)
    ELSE IF r.result = "nobatch" THEN Err("CreateFailed", NoBatch, Undefined, TRUE)
    ELSE NoError

\* Upload and poll: result is undefined, [] or [{status, ...}]
UploadResponses ==
    Enumerate({r \in [net : {"reject", "ok"}, json : BOOLEAN, ok : BOOLEAN,
                      success : BOOLEAN, result : {"undefined", "empty", "entry"},
                      status : Statuses \cup {"none"}] :
                  /\ (r.result = "entry") <=> (r.status # "none")
                  /\ r.net = "reject" => ~r.json /\ ~r.ok
                  /\ ~r.json => ~r.success /\ r.result = "undefined"})

UploadFailedStatusOnly(r) == ~r.ok

UploadFailedFlagOnly(r) == ~r.success

\* line 426
UploadFailed(r) == ~r.ok \/ ~r.success

UploadStageOkNotFailed(status) == status # "Failed"

\* line 157, negated
UploadStageOk(status) == status \in {"Queued", "Processing"}

\* createImportJobAndUploadData from line 415: what the response makes it
\* throw; uploadResult.result[0] of undefined or [] is a TypeError
UploadError(r) ==
    IF r.net = "reject" THEN Err("Network", NoBatch, Undefined, FALSE)
    ELSE IF ~r.json THEN Err("Decode", NoBatch, Undefined, FALSE)
    ELSE IF UploadFailed(r) THEN Err("UploadFailed", NoBatch, Undefined, TRUE)
    ELSE IF r.result # "entry" THEN Err("TypeError", NoBatch, Undefined, FALSE)
    ELSE NoError

PollResponses ==
    Enumerate({r \in [net : {"reject", "ok"}, json : BOOLEAN, ok : BOOLEAN,
                      success : BOOLEAN, result : {"undefined", "empty", "entry"},
                      status : Statuses \cup {"none"},
                      numOfRowsProcessed : RowCounts, numOfRowsFailed : RowCounts] :
                  /\ (r.result = "entry") <=> (r.status # "none")
                  /\ r.result # "entry" =>
                        r.numOfRowsProcessed = Undefined /\ r.numOfRowsFailed = Undefined
                  /\ r.net = "reject" => ~r.json /\ ~r.ok
                  /\ ~r.json => ~r.success /\ r.result = "undefined"})

PollFailedFlagOnly(r) == ~r.success

\* line 457
PollFailed(r) == ~r.ok \/ ~r.success

\* pollJobStatus lines 450-461: what the response makes the loop throw
\* before it looks at the status
PollError(r) ==
    IF r.net = "reject" THEN Err("Network", NoBatch, Undefined, FALSE)
    ELSE IF ~r.json THEN Err("Decode", NoBatch, Undefined, FALSE)
    ELSE IF PollFailed(r) THEN Err("PollFailed", NoBatch, Undefined, TRUE)
    ELSE IF r.result # "entry" THEN Err("TypeError", NoBatch, Undefined, FALSE)
    ELSE NoError

\* result.result[0]
Entry(r) ==
    [status |-> r.status, numOfRowsProcessed |-> r.numOfRowsProcessed,
     numOfRowsFailed |-> r.numOfRowsFailed]

IsCompletedOrFailed(status) == status \in {"Completed", "Failed"}

\* line 463
IsCompleted(status) == status = "Completed"

IsFailedNever(status) == FALSE

\* line 467
IsFailed(status) == status = "Failed"

InBudgetInclusive(n) == n <= MaxAttempts

\* line 447
InBudget(n) == n < MaxAttempts

----------------------------------------------------------------------------
(* Router and single-call handlers *)

\* the switch of lines 92-107
Route(path) ==
    CASE path = "/api/import" -> "handleBulkImport"
      [] path = "/api/single-lead" -> "handleSingleLead"
      [] path = "/api/fields" -> "handleFieldFetch"
      [] path = "/api/programs" -> "handleProgramSearch"
      [] path = "/api/parse-leads" -> "handleGeminiParse"
      [] path = "/api/describe-title" -> "handleGeminiDescribe"
      [] OTHER -> "none"

\* handlers that start with await request.json()
BodyHandlers == {"handleSingleLead", "handleGeminiParse", "handleGeminiDescribe"}

GeminiHandlers == {"handleGeminiParse", "handleGeminiDescribe"}

\* the remote call of a single-call handler
RemoteOp(h) ==
    CASE h = "handleSingleLead" -> "leads"
      [] h = "handleFieldFetch" -> "describe"
      [] h = "handleProgramSearch" -> "programs"
      [] OTHER -> "gemini"

\* Response to that call: text is candidates[0].content.parts[0].text of
\* a Gemini body (absent, not JSON, JSON)
RemoteResponses ==
    Enumerate({r \in [net : {"reject", "ok"}, json : BOOLEAN, ok : BOOLEAN,
                      success : BOOLEAN, result : {"undefined", "value"},
                      text : {"empty", "badjson", "good"}] :
                  /\ r.net = "reject" => ~r.json /\ ~r.ok
                  /\ ~r.json => ~r.success /\ r.result = "undefined" /\ r.text = "empty"})

\* what the response makes handler h throw
RemoteThrown(h, r) ==
    IF r.net = "reject" THEN Err("Network", NoBatch, Undefined, FALSE)
    ELSE IF h \in GeminiHandlers
    THEN IF r.ok /\ ~r.json THEN Err("Decode", NoBatch, Undefined, FALSE)
         ELSE NoError
    ELSE IF ~r.json THEN Err("Decode", NoBatch, Undefined, FALSE)
    ELSE IF r.ok /\ r.success /\ h = "handleFieldFetch" /\ r.result = "undefined"
    THEN Err("TypeError", NoBatch, Undefined, FALSE)
    ELSE NoError

SuccessBody == [NoBody EXCEPT !.status = "success"]

\* what handler h returns when it does not throw
RemoteReturned(h, r) ==
    IF h \in GeminiHandlers
    THEN IF ~r.ok
         THEN errorResponse(Err("GeminiApi", NoBatch, Undefined, TRUE), 502)
         ELSE IF r.text = "empty"
         THEN errorResponse(Err("GeminiEmpty", NoBatch, Undefined, FALSE), 500)
         ELSE IF h = "handleGeminiParse" /\ r.text = "badjson"
         THEN errorResponse(Err("GeminiParse", NoBatch, Undefined, FALSE), 500)
         ELSE jsonResponse(SuccessBody, 200)
    ELSE IF ~r.ok \/ ~r.success
         THEN errorResponse(Err("MarketoApi", NoBatch, Undefined, TRUE), 502)
         ELSE jsonResponse(SuccessBody, 200)

----------------------------------------------------------------------------
(* End of a request *)

\* return resp from fetch
Respond(resp) ==
    /\ response' = resp
    /\ pc' = "done"

ThrowUncaught(e) ==
    /\ thrown' = e
    /\ pc' = "done"
    /\ UNCHANGED response

\* throw e in a handler: caught at line 108, answered by line 110
Throw(e) ==
    /\ thrown' = e
    /\ Respond(errorResponse(e, 500))

----------------------------------------------------------------------------
(* Two requests in flight.  Everything a handler holds is a const or let
   of its own invocation; env is the only thing requests share.  The
   runtime resumes one handler at a time, at an await. *)

InitLocals ==
    [pc |-> "idle", request |-> NoRequest, handler |-> "none",
     token |-> NoToken, batchId |-> NoBatch, attempt |-> 0, timer |-> 0,
     log |-> <<>>, observed |-> {}, pollStatus |-> "none",
     snapshot |-> NoSnapshot, lastResp |-> NoResp, uploadStatus |-> "none",
     finalStatus |-> NoSnapshot, thrown |-> NoError, response |-> NoResponse]

Locals ==
    [pc |-> pc, request |-> request, handler |-> handler,
     token |-> token, batchId |-> batchId, attempt |-> attempt, timer |-> timer,
     log |-> log, observed |-> observed, pollStatus |-> pollStatus,
     snapshot |-> snapshot, lastResp |-> lastResp, uploadStatus |-> uploadStatus,
     finalStatus |-> finalStatus, thrown |-> thrown, response |-> response]

----------------------------------------------------------------------------
Init ==
    /\ peer = InitLocals
    /\ env \in BOOLEAN
    /\ pc = "idle"
    /\ request = NoRequest
    /\ handler = "none"
    /\ token = NoToken
    /\ batchId = NoBatch
    /\ attempt = 0
    /\ timer = 0
    /\ log = <<>>
    /\ observed = {}
    /\ pollStatus = "none"
    /\ snapshot = NoSnapshot
    /\ lastResp = NoResp
    /\ uploadStatus = "none"
    /\ finalStatus = NoSnapshot
    /\ thrown = NoError
    /\ response = NoResponse

\* getAccessToken of a single-call handler, up to its fetch
StartToken ==
    IF ~env
    THEN Throw(Err("Config", NoBatch, Undefined, FALSE)) /\ UNCHANGED log
    ELSE /\ log' = Append(log, Call("token", NoToken, NoBatch))
         /\ pc' = "await_pt_token"
         /\ UNCHANGED <<thrown, response>>

\* fetch: preflight, then the route switch on the path and the handler up
\* to its first await
Fetch ==
    /\ pc = "idle"
    /\ \E r \in Requests :
        /\ request' = r
        /\ IF r.method = "OPTIONS"
           THEN /\ Respond(handleCors([http |-> 204, cors |-> FALSE, body |-> NoBody]))
                /\ UNCHANGED <<handler, thrown, log>>
           ELSE /\ handler' = Route(r.path)
                /\ IF Route(r.path) = "none"
                   THEN /\ Respond(errorResponse(
                               Err("NotFound", NoBatch, Undefined, FALSE), 404))
                        /\ UNCHANGED <<thrown, log>>
                   ELSE IF Route(r.path) = "handleBulkImport"
                   THEN /\ pc' = "await_body"
                        /\ UNCHANGED <<thrown, response, log>>
                   ELSE IF Route(r.path) \in BodyHandlers
                   THEN /\ pc' = "await_input"
                        /\ UNCHANGED <<thrown, response, log>>
                   ELSE IF Route(r.path) = "handleProgramSearch" /\ Falsy(r.input)
                   THEN /\ Respond(errorResponse(
                               Err("MissingInput", NoBatch, Undefined, FALSE), 400))
                        /\ UNCHANGED <<thrown, log>>
                   ELSE StartToken
    /\ UNCHANGED <<env, peer, token, batchId, attempt, timer, observed, pollStatus,
                   snapshot, lastResp, uploadStatus, finalStatus>>

\* handleBulkImport after request.json(): destructuring, validation, then
\* getAccessToken up to its fetch
ImportBody ==
    /\ pc = "await_body"
    /\ IF request.body.kind = "undecodable"
       THEN Throw(Err("Decode", NoBatch, Undefined, FALSE)) /\ UNCHANGED log
       ELSE IF request.body.kind = "null"
       THEN Throw(Err("TypeError", NoBatch, Undefined, FALSE)) /\ UNCHANGED log
       ELSE IF Falsy(request.body.csvContent) \/ Falsy(request.body.lookupField)
       THEN /\ Respond(errorResponse(Err("MissingInput", NoBatch, Undefined, FALSE), 400))
            /\ UNCHANGED <<thrown, log>>
       ELSE IF ~env
       THEN Throw(Err("Config", NoBatch, Undefined, FALSE)) /\ UNCHANGED log
       ELSE /\ log' = Append(log, Call("token", NoToken, NoBatch))
            /\ pc' = "await_token"
            /\ UNCHANGED <<thrown, response>>
    /\ UNCHANGED <<env, peer, request, handler, token, batchId, attempt, timer, observed,
                   pollStatus, snapshot, lastResp, uploadStatus, finalStatus>>

\* getAccessToken after its fetch, then createImportJobAndUploadData up to
\* the job-creation fetch
TokenResponse ==
    /\ pc = "await_token"
    /\ \E r \in TokenResponses :
        /\ lastResp' = Summary(r, r.access_token # NoToken)
        /\ IF TokenFailed(r)
           THEN Throw(TokenError(r)) /\ UNCHANGED <<token, log>>
           ELSE /\ token' = r.access_token
                /\ log' = Append(log, Call("create", r.access_token, NoBatch))
                /\ pc' = "await_create"
                /\ UNCHANGED <<thrown, response>>
    /\ UNCHANGED <<env, peer, request, handler, batchId, attempt, timer, observed, pollStatus, snapshot,
                   uploadStatus, finalStatus>>

CreateResponseRetry ==
    /\ pc = "await_create"
    /\ \E r \in CreateResponses :
        /\ lastResp' = Summary(r, r.success)
        /\ IF CreateError(r) # NoError /\ Count("create") < 2
           THEN /\ log' = Append(log, Call("create", token, NoBatch))
                /\ UNCHANGED <<pc, batchId, thrown, response>>
           ELSE IF CreateError(r) # NoError
           THEN Throw(CreateError(r)) /\ UNCHANGED <<batchId, log>>
           ELSE /\ batchId' = r.batchId
                /\ log' = Append(log, Call("upload", token, r.batchId))
                /\ pc' = "await_upload"
                /\ UNCHANGED <<thrown, response>>
    /\ UNCHANGED <<env, peer, request, handler, token, attempt, timer, observed,
                   pollStatus, snapshot, uploadStatus, finalStatus>>

\* createImportJobAndUploadData after the job-creation fetch, up to the
\* upload fetch
CreateResponse ==
    /\ pc = "await_create"
    /\ \E r \in CreateResponses :
        /\ lastResp' = Summary(r, r.success)
        /\ IF CreateError(r) # NoError
           THEN Throw(CreateError(r)) /\ UNCHANGED <<batchId, log>>
           ELSE /\ batchId' = r.batchId
                /\ log' = Append(log, Call("upload", token, r.batchId))
                /\ pc' = "await_upload"
                /\ UNCHANGED <<thrown, response>>
    /\ UNCHANGED <<env, peer, request, handler, token, attempt, timer, observed, pollStatus, snapshot,
                   uploadStatus, finalStatus>>

\* createImportJobAndUploadData after the upload fetch, the status check
\* of handleBulkImport, then pollJobStatus up to its first pollDelay
UploadResponse ==
    /\ pc = "await_upload"
    /\ \E r \in UploadResponses :
        /\ lastResp' = Summary(r, r.success)
        /\ IF UploadError(r) # NoError
           THEN Throw(UploadError(r)) /\ UNCHANGED <<uploadStatus, attempt, timer>>
           ELSE /\ uploadStatus' = r.status
                /\ IF ~UploadStageOk(r.status)
                   THEN /\ Throw(Err("UploadStage", NoBatch, Undefined, FALSE))
                        /\ UNCHANGED <<attempt, timer>>
                   ELSE /\ attempt' = 0
                        /\ IF InBudget(0)
                           THEN /\ timer' = pollDelay(0)
                                /\ pc' = "await_delay"
                                /\ UNCHANGED <<thrown, response>>
                           ELSE /\ Throw(Err("Timeout", batchId, 0, FALSE))
                                /\ UNCHANGED timer
    /\ UNCHANGED <<env, peer, request, handler, token, batchId, log, observed, pollStatus, snapshot,
                   finalStatus>>

TimerNeverResolves ==
    /\ pc = "await_delay"
    /\ FALSE
    /\ UNCHANGED vars

\* the setTimeout of pollDelay fires: the wait is over and the status
\* query is issued
TimerFires ==
    /\ pc = "await_delay"
    /\ log' = log \o <<Wait(timer), Call("poll", token, batchId)>>
    /\ timer' = 0
    /\ pc' = "await_poll"
    /\ UNCHANGED <<env, peer, request, handler, token, batchId, attempt, observed, pollStatus, snapshot,
                   lastResp, uploadStatus, finalStatus, thrown, response>>

\* pollJobStatus lines 455-475 for one response r
PollStep(r) ==
    IF PollError(r) # NoError
    THEN /\ Throw(PollError(r))
         /\ UNCHANGED <<attempt, timer, observed, pollStatus, snapshot, finalStatus>>
    ELSE /\ observed' = observed \cup {r.status}
         /\ pollStatus' = r.status
         /\ IF IsCompleted(r.status)
            THEN /\ finalStatus' = Entry(r)
                 /\ snapshot' = Entry(r)
                 /\ Respond(jsonResponse(
                        [status |-> r.status, jobId |-> batchId,
                         successRows |-> OrZero(r.numOfRowsProcessed),
                         errorRows |-> OrZero(r.numOfRowsFailed),
                         message |-> NoError], 200))
                 /\ UNCHANGED <<attempt, timer, thrown>>
            ELSE IF IsFailed(r.status)
            THEN /\ Throw(Err("JobFailed", batchId, Undefined, TRUE))
                 /\ snapshot' = Entry(r)
                 /\ UNCHANGED <<attempt, timer, finalStatus>>
            ELSE /\ attempt' = attempt + 1
                 /\ UNCHANGED finalStatus
                 /\ IF InBudget(attempt + 1)
                    THEN /\ timer' = pollDelay(attempt + 1)
                         /\ pc' = "await_delay"
                         /\ UNCHANGED <<snapshot, thrown, response>>
                    ELSE /\ Throw(Err("Timeout", batchId, attempt + 1, FALSE))
                         /\ snapshot' = Entry(r)
                         /\ UNCHANGED timer

\* pollJobStatus after its fetch: the rest of the loop body, then either
\* the next pollDelay, the return into handleBulkImport, or a throw
PollResponse ==
    /\ pc = "await_poll"
    /\ \E r \in PollResponses :
        /\ lastResp' = Summary(r, r.success)
        /\ PollStep(r)
    /\ UNCHANGED <<env, peer, request, handler, token, batchId, log, uploadStatus>>


\* handleSingleLead, handleGeminiParse, handleGeminiDescribe after
\* request.json(): validation, then up to the next fetch
HandlerBody ==
    /\ pc = "await_input"
    /\ IF request.body.kind = "undecodable"
       THEN Throw(Err("Decode", NoBatch, Undefined, FALSE)) /\ UNCHANGED log
       ELSE IF request.body.kind = "null"
       THEN Throw(Err("TypeError", NoBatch, Undefined, FALSE)) /\ UNCHANGED log
       ELSE IF Falsy(request.input)
       THEN /\ Respond(errorResponse(Err("MissingInput", NoBatch, Undefined, FALSE), 400))
            /\ UNCHANGED <<thrown, log>>
       ELSE IF handler = "handleSingleLead"
       THEN StartToken
       ELSE /\ log' = Append(log, Call(RemoteOp(handler), NoToken, NoBatch))
            /\ pc' = "await_remote"
            /\ UNCHANGED <<thrown, response>>
    /\ UNCHANGED <<env, peer, request, handler, token, batchId, attempt, timer, observed,
                   pollStatus, snapshot, lastResp, uploadStatus, finalStatus>>

\* getAccessToken of a single-call handler after its fetch, then the
\* handler up to its remote call
HandlerToken ==
    /\ pc = "await_pt_token"
    /\ \E r \in TokenResponses :
        /\ lastResp' = Summary(r, r.access_token # NoToken)
        /\ IF TokenFailed(r)
           THEN Throw(TokenError(r)) /\ UNCHANGED <<token, log>>
           ELSE /\ token' = r.access_token
                /\ log' = Append(log, Call(RemoteOp(handler), r.access_token, NoBatch))
                /\ pc' = "await_remote"
                /\ UNCHANGED <<thrown, response>>
    /\ UNCHANGED <<env, peer, request, handler, batchId, attempt, timer, observed,
                   pollStatus, snapshot, uploadStatus, finalStatus>>

\* a single-call handler after its remote call
HandlerRemote ==
    /\ pc = "await_remote"
    /\ \E r \in RemoteResponses :
        /\ lastResp' = Summary(r, IF handler \in GeminiHandlers
                                   THEN r.text # "empty" ELSE r.success)
        /\ IF RemoteThrown(handler, r) # NoError
           THEN Throw(RemoteThrown(handler, r))
           ELSE Respond(RemoteReturned(handler, r)) /\ UNCHANGED thrown
    /\ UNCHANGED <<env, peer, request, handler, token, batchId, attempt, timer, log,
                   observed, pollStatus, snapshot, uploadStatus, finalStatus>>

Next ==
    \/ Fetch
    \/ ImportBody
    \/ TokenResponse
    \/ CreateResponse
    \/ UploadResponse
    \/ TimerFires
    \/ PollResponse
    \/ HandlerBody
    \/ HandlerToken
    \/ HandlerRemote

Spec == Init /\ [][Next]_vars

SwitchSharedBatchId ==
    /\ peer # Locals
    /\ peer' = Locals
    /\ pc' = peer.pc
    /\ request' = peer.request
    /\ handler' = peer.handler
    /\ token' = peer.token
    /\ attempt' = peer.attempt
    /\ timer' = peer.timer
    /\ log' = peer.log
    /\ observed' = peer.observed
    /\ pollStatus' = peer.pollStatus
    /\ snapshot' = peer.snapshot
    /\ lastResp' = peer.lastResp
    /\ uploadStatus' = peer.uploadStatus
    /\ finalStatus' = peer.finalStatus
    /\ thrown' = peer.thrown
    /\ response' = peer.response
    /\ UNCHANGED <<env, batchId>>

\* the runtime suspends the running handler at its await and resumes the
\* other one: each continues with its own locals
Switch ==
    /\ peer # Locals
    /\ peer' = Locals
    /\ pc' = peer.pc
    /\ request' = peer.request
    /\ handler' = peer.handler
    /\ token' = peer.token
    /\ batchId' = peer.batchId
    /\ attempt' = peer.attempt
    /\ timer' = peer.timer
    /\ log' = peer.log
    /\ observed' = peer.observed
    /\ pollStatus' = peer.pollStatus
    /\ snapshot' = peer.snapshot
    /\ lastResp' = peer.lastResp
    /\ uploadStatus' = peer.uploadStatus
    /\ finalStatus' = peer.finalStatus
    /\ thrown' = peer.thrown
    /\ response' = peer.response
    /\ UNCHANGED env

\* The runs explored with two requests: both are /api/import requests
\* that pass validation, every remote call succeeds, the job is Queued,
\* then Processing for at most MaxConcAttempt polls, then Completed
Narrow ==
    /\ env
    /\ request \in {NoRequest,
                     [method |-> "POST", path |-> "/api/import",
                      body |-> [kind |-> "object", csvContent |-> "value",
                                lookupField |-> "value"],
                      input |-> "undefined"]}
    /\ thrown = NoError
    /\ attempt <= MaxConcAttempt
    /\ uploadStatus \in {"none", "Queued"}
    /\ observed \subseteq {"Processing", "Completed"}
    /\ snapshot \in {NoSnapshot,
                      [status |-> "Completed", numOfRowsProcessed |-> MaxRows,
                       numOfRowsFailed |-> 0]}

ConcNext ==
    \/ Next /\ Narrow'
    \/ Switch

\* the configuration is set
ConcInit == Init /\ env

ConcSpec == ConcInit /\ [][ConcNext]_vars

\* Every remote call and every timer of the import orchestration
\* eventually returns, and the runtime then resumes the handler
ImportResumes ==
    \/ ImportBody
    \/ TokenResponse
    \/ CreateResponse
    \/ UploadResponse
    \/ TimerFires
    \/ PollResponse

LiveSpec == Spec /\ WF_vars(ImportResumes)

----------------------------------------------------------------------------
(* Vocabulary of the properties *)

TerminalStatuses == {"Completed", "Failed", "Cancelled"}

\* the request reached handleBulkImport and its body decoded to a value
\* that passed the check of line 149
ImportAccepted ==
    /\ request.method # "OPTIONS"
    /\ request.path = "/api/import"
    /\ request.body.kind = "object"
    /\ ~Falsy(request.body.csvContent)
    /\ ~Falsy(request.body.lookupField)

LastOp == IF log = <<>> THEN "none" ELSE log[Len(log)].op

\* the response to the upload call has been received and is the last one
UploadAnswered == LastOp = "upload" /\ pc # "await_upload"

\* the response to the latest status query has been received
PollAnswered == LastOp = "poll" /\ pc # "await_poll"

ErrorEnvelope(http) ==
    /\ response.http = http
    /\ response.body.status = "error"

RECURSIVE SumMs(_)
SumMs(seq) == IF seq = <<>> THEN 0 ELSE Head(seq).ms + SumMs(Tail(seq))

----------------------------------------------------------------------------
\* C1: when the token exchange fails (configuration missing, call rejected,
\* undecodable body, non-success status or no access_token), no job-creation
\* call, no upload and no status query is issued and the request ends in the
\* error envelope; a job-creation call is only ever issued with a token.
TokenExchangeFailed == pc = "done" /\ ImportAccepted /\ token = NoToken

NoCallAfterTokenFailure ==
    /\ TokenExchangeFailed =>
          /\ Count("create") = 0 /\ Count("upload") = 0 /\ Count("poll") = 0
          /\ ErrorEnvelope(500)
          /\ thrown.kind \in {"Config", "Network", "Decode", "TokenFailed"}
    /\ \A i \in 1..Len(log) :
          log[i].op \in {"create", "upload", "poll"} => log[i].token # NoToken

TokenExchangeFailedReached ==
    /\ TokenExchangeFailed
    /\ Count("token") = 1
    /\ lastResp.net = "ok" /\ lastResp.json /\ lastResp.ok /\ ~lastResp.success

----------------------------------------------------------------------------
\* C2: every /api/import request whose body decodes and lacks a non-empty
\* csvContent or lookupField is answered by the error envelope with status
\* 400, with no remote call made.
MissingFieldIs400 ==
    (/\ pc = "done"
     /\ request.method # "OPTIONS"
     /\ request.path = "/api/import"
     /\ request.body.kind # "undecodable"
     /\ Falsy(request.body.csvContent) \/ Falsy(request.body.lookupField))
    => (ErrorEnvelope(400) /\ RemoteCalls = 0)

----------------------------------------------------------------------------
\* C3 as stated: after a non-2xx upload response the request fails with an
\* error that carries the batch id of the job, and no status query is issued.
UploadNon2xx == UploadAnswered /\ lastResp.net = "ok" /\ ~lastResp.ok

UploadErrorCarriesBatchId ==
    UploadNon2xx =>
        /\ pc = "done"
        /\ thrown.batch = batchId
        /\ Count("poll") = 0

\* C3 as amended: after a non-2xx upload response the request fails with
\* status 500 and an error that does not carry the batch id (the upload
\* error embedding the remote errors payload when the body decodes, a decode
\* error otherwise), and no status query is issued.
UploadNon2xxFailsWithoutPoll ==
    UploadNon2xx =>
        /\ pc = "done"
        /\ batchId \in BatchIds
        /\ ErrorEnvelope(500)
        /\ response.body.message = thrown
        /\ thrown.batch = NoBatch
        /\ IF lastResp.json
           THEN thrown.kind = "UploadFailed" /\ thrown.payload
           ELSE thrown.kind = "Decode"
        /\ Count("poll") = 0 /\ timer = 0

UploadNon2xxReached == UploadNon2xx /\ lastResp.json /\ lastResp.success

----------------------------------------------------------------------------
\* C4: when the poll responses are k-1 times Queued or Processing and then
\* Completed (1 <= k <= 10), exactly k status queries are issued, each right
\* after one wait, each wait longer than the previous one while that one is
\* below the cap, and the Completed snapshot is returned with its row counts
\* unchanged.
QueuedProcessingThenCompleted ==
    /\ pc = "done"
    /\ pollStatus = "Completed"
    /\ observed \subseteq {"Queued", "Processing", "Completed"}

CompletedAfterKQueries ==
    QueuedProcessingThenCompleted =>
        LET k == attempt + 1
            w == Waits
        IN /\ k \in 1..MaxAttempts
           /\ Count("poll") = k
           /\ Len(w) = k
           /\ Len(log) = 3 + 2 * k
           /\ \A i \in 1..k :
                 /\ log[3 + 2 * i - 1].op = "wait"
                 /\ log[3 + 2 * i - 1].ms > 0
                 /\ log[3 + 2 * i].op = "poll"
           /\ \A i \in 2..k : w[i - 1].ms < DelayCap => w[i].ms > w[i - 1].ms
           /\ k >= 2 => w[2].ms > w[1].ms
           /\ k >= 3 => w[3].ms > w[2].ms
           /\ snapshot.status = "Completed"
           /\ finalStatus = snapshot
           /\ response.http = 200
           /\ response.body.status = "Completed"
           /\ snapshot.numOfRowsProcessed # Undefined =>
                 response.body.successRows = snapshot.numOfRowsProcessed
           /\ snapshot.numOfRowsFailed # Undefined =>
                 response.body.errorRows = snapshot.numOfRowsFailed

CompletedAfterTenQueries ==
    /\ QueuedProcessingThenCompleted
    /\ observed = {"Queued", "Processing", "Completed"}
    /\ Count("poll") = MaxAttempts
    /\ snapshot.numOfRowsProcessed = 1
    /\ snapshot.numOfRowsFailed = 0

----------------------------------------------------------------------------
\* C5: at most 10 status queries are ever issued; after 10 responses that
\* let the loop continue the request fails with the timeout error carrying
\* the batch id and the attempt count 10.
AtMostTenQueries ==
    /\ Count("poll") <= 10
    /\ attempt <= 10
    /\ attempt = 10 =>
          /\ pc = "done"
          /\ Count("poll") = 10
          /\ thrown = Err("Timeout", batchId, 10, FALSE)
          /\ batchId \in BatchIds
          /\ ErrorEnvelope(500)
          /\ response.body.message = thrown
          /\ timer = 0

TimedOutAfterTenQueries ==
    /\ attempt = 10
    /\ observed \subseteq {"Queued", "Processing"}
    /\ thrown.kind = "Timeout"

----------------------------------------------------------------------------
\* C6: once a poll response with a terminal status (Completed, Failed or
\* Cancelled) has been observed, the request is over: no wait is pending
\* and no status query is outstanding or yet to come.
DeadOnceTerminal ==
    (observed \cap TerminalStatuses # {}) => (pc = "done" /\ timer = 0)

----------------------------------------------------------------------------
\* C7 as stated: a poll response with status Failed or Cancelled makes
\* pollJobStatus return that snapshot, without raising an error.
FailedOrCancelledIsReturned ==
    pollStatus \in {"Failed", "Cancelled"} =>
        (finalStatus.status = pollStatus /\ thrown = NoError)

\* C7 as amended: a poll response with status Failed makes pollJobStatus
\* raise an error that carries the batch id (the request ends with status
\* 500) instead of returning the snapshot; pollJobStatus returns a snapshot
\* only for Completed, and then without raising an error.
FailedIsRaisedOnlyCompletedReturned ==
    /\ pollStatus = "Failed" =>
          /\ pc = "done"
          /\ snapshot.status = "Failed"
          /\ thrown = Err("JobFailed", batchId, Undefined, TRUE)
          /\ batchId \in BatchIds
          /\ finalStatus = NoSnapshot
          /\ ErrorEnvelope(500)
    /\ finalStatus # NoSnapshot =>
          /\ finalStatus.status = "Completed"
          /\ finalStatus = snapshot
          /\ thrown = NoError
          /\ response.http = 200

FailedObserved == pollStatus = "Failed" /\ pc = "done" /\ attempt >= 1

----------------------------------------------------------------------------
\* C8 as stated: an upload response with an HTTP success status is a
\* successful upload whatever its body; the request proceeds to polling.
UploadHttpOk == UploadAnswered /\ lastResp.net = "ok" /\ lastResp.ok

UploadSuccessByStatusAlone ==
    UploadHttpOk => (pc = "await_delay" /\ thrown = NoError)

\* C8 as amended: an upload response is a successful upload only if its
\* HTTP status is a success, its body decodes as JSON, the success flag is
\* set and result[0].status is Queued or Processing; with an HTTP success
\* status and an empty or non-JSON body the request fails with status 500
\* and no status query is issued.  After a successful upload, poll responses
\* Processing then Completed give the Completed result with the batch id.
UploadSuccessNeedsJsonBody ==
    /\ (UploadHttpOk /\ ~lastResp.json) =>
          /\ pc = "done"
          /\ thrown.kind = "Decode"
          /\ ErrorEnvelope(500)
          /\ Count("poll") = 0 /\ timer = 0
    /\ (UploadAnswered /\ pc # "done") =>
          /\ pc = "await_delay"
          /\ lastResp = [net |-> "ok", json |-> TRUE, ok |-> TRUE, success |-> TRUE]
          /\ uploadStatus \in {"Queued", "Processing"}
    /\ Count("poll") > 0 => uploadStatus \in {"Queued", "Processing"}
    /\ (pc = "done" /\ Count("poll") = 2 /\ observed = {"Processing", "Completed"}) =>
          /\ response.http = 200
          /\ response.body.status = "Completed"
          /\ response.body.jobId = batchId
          /\ batchId \in BatchIds
          /\ \A i \in 1..Len(log) :
                log[i].op \in {"upload", "poll"} => log[i].batch = batchId

UploadEmptyBodyReached == UploadHttpOk /\ ~lastResp.json /\ pc = "done"

----------------------------------------------------------------------------
\* C9: a poll response that is a failure (non-2xx status, or success flag
\* missing or false) ends the request at once with an error raised by the
\* poll step, whatever the attempts left: no wait is armed and no status
\* query follows.
PollResponseFailed ==
    /\ PollAnswered
    /\ lastResp.net = "ok"
    /\ ~lastResp.ok \/ ~lastResp.success

PollFailureIsImmediate ==
    PollResponseFailed =>
        /\ pc = "done"
        /\ timer = 0
        /\ Count("poll") = attempt + 1
        /\ IF lastResp.json
           THEN thrown = Err("PollFailed", NoBatch, Undefined, TRUE)
           ELSE thrown.kind = "Decode"
        /\ ErrorEnvelope(500)
        /\ finalStatus = NoSnapshot

PollFailureWithAttemptsLeft ==
    /\ PollResponseFailed
    /\ lastResp.json /\ ~lastResp.ok
    /\ attempt = 2

----------------------------------------------------------------------------
\* C10: the wait before poll attempt n (n = 0..9) is min(2^n * 1 s, cap):
\* the first wait is between 1 and 2 seconds, each wait is twice the
\* previous one or the cap, no wait is below the base delay or above the
\* cap (between 30 and 60 seconds), the waits never decrease and their sum
\* is at most attempts x cap.
BackoffShape ==
    LET w == IF timer = 0 THEN Waits ELSE Append(Waits, Wait(timer))
    IN /\ Len(w) <= MaxAttempts
       /\ DelayCap >= 30000 /\ DelayCap <= 60000
       /\ \A i \in 1..Len(w) :
             /\ w[i].ms = (IF (2 ^ (i - 1)) * 1000 < DelayCap
                           THEN (2 ^ (i - 1)) * 1000 ELSE DelayCap)
             /\ w[i].ms >= BaseDelay
             /\ w[i].ms <= DelayCap
       /\ Len(w) >= 1 => (w[1].ms >= 1000 /\ w[1].ms <= 2000)
       /\ \A i \in 2..Len(w) :
             /\ w[i].ms >= w[i - 1].ms
             /\ w[i].ms = (IF 2 * w[i - 1].ms < DelayCap
                           THEN 2 * w[i - 1].ms ELSE DelayCap)
       /\ SumMs(w) <= MaxAttempts * DelayCap
       /\ (timer # 0) <=> (pc = "await_delay")

TenWaitsReached == Len(Waits) = MaxAttempts /\ Waits[MaxAttempts].ms = DelayCap

----------------------------------------------------------------------------
\* C11: in one /api/import orchestration the token exchange, the
\* job-creation call and the upload call are each issued at most once, in
\* the order token, create, upload, status query; only the status query
\* is issued more than once.
ImportCalls == SelectSeq(log, LAMBDA e : e.op # "wait")

CallsOnceInOrder ==
    handler = "handleBulkImport" =>
        /\ Count("token") <= 1 /\ Count("create") <= 1 /\ Count("upload") <= 1
        /\ \A i \in 1..Len(ImportCalls) :
              ImportCalls[i].op = (CASE i = 1 -> "token"
                                     [] i = 2 -> "create"
                                     [] i = 3 -> "upload"
                                     [] OTHER -> "poll")

SeveralQueriesAfterOneUpload ==
    /\ handler = "handleBulkImport"
    /\ pc = "done"
    /\ Count("poll") = 3
    /\ Count("upload") = 1

----------------------------------------------------------------------------
\* C12: when the job-creation response is not HTTP-successful, or its
\* success flag is false, or its result holds no batch id (result missing
\* or empty included), the request fails with an error raised by the
\* job-creation step and neither the upload nor a status query is issued;
\* an upload is only ever issued for a batch id the response carried.
CreateFailedAnswered == LastOp = "create" /\ pc # "await_create"

----------------------------------------------------------------------------
\* C13: every error thrown in a handler is caught by fetch and answered
\* by one JSON error envelope with status 500 that carries its message;
\* the request is over then, and no request ends without a response or,
\* unless it is a preflight, without a JSON body.
ThrownIsAnswered500 ==
    /\ thrown # NoError =>
          /\ pc = "done"
          /\ response.http = 500
          /\ response.body.status = "error"
          /\ response.body.message = thrown
    /\ pc = "done" => response # NoResponse
    /\ (pc = "done" /\ request.method # "OPTIONS") => response.body # NoBody
    /\ pc # "done" => (response = NoResponse /\ thrown = NoError)

TimeoutThrown == thrown.kind = "Timeout" /\ pc = "done" /\ response.http = 500

----------------------------------------------------------------------------
\* C14: every response carries the Access-Control-Allow-Origin header,
\* whatever its status (200, 204, 400, 404, 500, 502); an OPTIONS request
\* to any path is answered 204 without body, calls no handler and makes no
\* remote call.
CorsOnEveryResponse ==
    /\ response # NoResponse =>
          /\ response.cors
          /\ response.http \in {200, 204, 400, 404, 500, 502}
    /\ pc = "done" => response # NoResponse
    /\ request.method = "OPTIONS" =>
          /\ pc = "done"
          /\ response.http = 204
          /\ response.body = NoBody
          /\ handler = "none"
          /\ RemoteCalls = 0
          /\ thrown = NoError

PreflightAnswered ==
    /\ request.method = "OPTIONS"
    /\ request.path = "/api/parse-leads"
    /\ response.http = 204

----------------------------------------------------------------------------
\* C15: a handler is reached only for one of the six (method, path) pairs
\* of the interface; every other request that is not a preflight is
\* answered by the error envelope with status 404 and makes no remote call.
Routes ==
    {<<"POST", "/api/import">>, <<"POST", "/api/single-lead">>,
     <<"GET", "/api/fields">>, <<"GET", "/api/programs">>,
     <<"POST", "/api/parse-leads">>, <<"POST", "/api/describe-title">>}

RouterChecksMethod ==
    /\ handler # "none" => <<request.method, request.path>> \in Routes
    /\ (/\ pc = "done"
        /\ request.method # "OPTIONS"
        /\ <<request.method, request.path>> \notin Routes)
       => (ErrorEnvelope(404) /\ RemoteCalls = 0)

----------------------------------------------------------------------------
\* C16: when every remote call and every timer returns, an /api/import
\* request ends, with one outcome that is a terminal result, a timeout or
\* another failure, after at most 10 status queries; a response once given
\* never changes.
ImportOutcome ==
    /\ response # NoResponse
    /\ Count("poll") <= MaxAttempts
    /\ \/ response.http = 200 /\ thrown = NoError /\ finalStatus # NoSnapshot
       \/ response.http = 500 /\ thrown.kind = "Timeout" /\ finalStatus = NoSnapshot
       \/ /\ response.http \in {400, 500}
          /\ response.body.status = "error"
          /\ thrown.kind # "Timeout"
          /\ finalStatus = NoSnapshot

ImportEndsWithOneOutcome ==
    /\ (handler = "handleBulkImport") ~> (pc = "done")
    /\ []((handler = "handleBulkImport" /\ pc = "done") => ImportOutcome)
    /\ []((handler = "handleBulkImport" /\ pc # "done") =>
             (response = NoResponse /\ Count("poll") <= MaxAttempts))
    /\ [][response # NoResponse => response' = response]_vars

ImportEndedAfterTenQueries ==
    /\ handler = "handleBulkImport"
    /\ pc = "done"
    /\ response.http = 200
    /\ Count("poll") = MaxAttempts

----------------------------------------------------------------------------
\* C17: the poll loop waits, then checks: every status query, the first
\* included, comes right after exactly one wait of nonzero length, every
\* wait is followed by a status query, and the timeout after the 10th
\* continuing response is raised without a further wait.
WaitThenCheck ==
    /\ \A i \in 1..Len(log) :
          /\ log[i].op = "poll" =>
                /\ i >= 2
                /\ log[i - 1].op = "wait"
                /\ log[i - 1].ms > 0
                /\ i >= 3 => log[i - 2].op # "wait"
          /\ log[i].op = "wait" => (i < Len(log) /\ log[i + 1].op = "poll")
    /\ pc = "await_delay" => (timer > 0 /\ attempt < MaxAttempts)
    /\ pc # "await_delay" => timer = 0
    /\ thrown.kind = "Timeout" =>
          /\ LastOp = "poll"
          /\ Count("wait") = MaxAttempts
          /\ Count("poll") = MaxAttempts

TenWaitsThenTimeout ==
    /\ thrown.kind = "Timeout"
    /\ Count("wait") = MaxAttempts
    /\ timer = 0

----------------------------------------------------------------------------
\* C19: polling starts only when the status of the upload response is
\* Queued or Processing; with any other status the request fails at the
\* upload stage and no status query is issued.
PollOnlyAfterQueuedOrProcessing ==
    /\ (pc \in {"await_delay", "await_poll"} \/ Count("poll") > 0) =>
          uploadStatus \in {"Queued", "Processing"}
    /\ uploadStatus \notin {"none", "Queued", "Processing"} =>
          /\ pc = "done"
          /\ thrown = Err("UploadStage", NoBatch, Undefined, FALSE)
          /\ ErrorEnvelope(500)
          /\ LastOp = "upload"
          /\ Count("poll") = 0 /\ timer = 0

UploadReportedCompleted == uploadStatus = "Completed" /\ pc = "done"

----------------------------------------------------------------------------
\* C20: an HTTP-200 response of /api/import has status Completed, the
\* batch id of this request's job creation as jobId, and the row counts of
\* the last poll snapshot (0 when absent); the only response of /api/import
\* that is not an error is that one, given after a Completed poll response.
AbsentIsZero(x) == IF x = Undefined THEN 0 ELSE x

OkResponseIsCompleted ==
    /\ (handler = "handleBulkImport" /\ response.http = 200) =>
          /\ response.body.status = "Completed"
          /\ pollStatus = "Completed"
          /\ snapshot.status = "Completed"
          /\ response.body.jobId = batchId
          /\ batchId \in BatchIds
          /\ Len(log) >= 3 /\ log[3].op = "upload" /\ log[3].batch = response.body.jobId
          /\ response.body.successRows = AbsentIsZero(snapshot.numOfRowsProcessed)
          /\ response.body.errorRows = AbsentIsZero(snapshot.numOfRowsFailed)
          /\ response.body.message = NoError
    /\ (/\ handler = "handleBulkImport"
        /\ response # NoResponse
        /\ response.body.status # "error")
       => (response.http = 200 /\ "Completed" \in observed)

OkResponseWithAbsentCounts ==
    /\ handler = "handleBulkImport"
    /\ response.http = 200
    /\ snapshot.numOfRowsProcessed = Undefined
    /\ snapshot.numOfRowsFailed = 1
    /\ observed = {"Queued", "Completed"}

----------------------------------------------------------------------------
\* C18: with two /api/import requests interleaved in any way, each request
\* makes its own token exchange and its own job creation, every upload and
\* status query of a request carries the token and the batch id that
\* request obtained, and the jobId a request reports is its own.
OwnCallsOnly(l) ==
    /\ \A i \in 1..Len(l.log) :
          /\ l.log[i].op = "create" =>
                /\ i = 2 /\ l.log[1].op = "token"
                /\ l.log[i].token \in Tokens
                /\ l.log[i].token = l.token
          /\ l.log[i].op \in {"upload", "poll"} =>
                /\ l.log[2].op = "create" /\ l.log[3].op = "upload"
                /\ l.log[i].token = l.log[2].token
                /\ l.log[i].token = l.token
                /\ l.log[i].batch \in BatchIds
                /\ l.log[i].batch = l.log[3].batch
                /\ l.log[i].batch = l.batchId
    /\ Cardinality({i \in 1..Len(l.log) : l.log[i].op = "token"}) <= 1
    /\ Cardinality({i \in 1..Len(l.log) : l.log[i].op = "create"}) <= 1
    /\ l.response.http = 200 =>
          (l.response.body.jobId = l.batchId /\ l.response.body.jobId = l.log[3].batch)

RequestsAreIsolated == OwnCallsOnly(Locals) /\ OwnCallsOnly(peer)

TwoImportsInFlight ==
    /\ pc = "await_poll" /\ peer.pc = "await_delay"
    /\ attempt = 1 /\ peer.attempt = 1
    /\ token # peer.token
    /\ batchId # peer.batchId

====
